---- MODULE Spec2Model ----
(***************************************************************************)
(* Terrain quadtree (QuadTree.cpp / QuadTree.h) and heightfield store      *)
(* (Terrain.cpp / Terrain.h) of the terrain renderer.                      *)
(*                                                                         *)
(* Numbers.  The C++ code computes in float.  The quadtree inputs are      *)
(* integers for which every float operation of the code is exact (sizes    *)
(* are halved and quartered at most MaxDepth times, height ranges have an  *)
(* even sum), and a comparison  sqrt(a) < t  is evaluated as  a < t*t .    *)
(***************************************************************************)
EXTENDS Integers, Sequences, FiniteSets, TLC

VARIABLES
    mRoot,              \* QuadTree::mRoot: path -> TerrainNode, empty when null
    mTerrainSize,       \* QuadTree::mTerrainSize
    mMinNodeSize,       \* QuadTree::mMinNodeSize
    mMaxLODLevels,      \* QuadTree::mMaxLODLevels
    mLODDistances,      \* QuadTree::mLODDistances
    mVisibleNodeCount,  \* QuadTree::mVisibleNodeCount
    mTotalNodeCount,    \* QuadTree::mTotalNodeCount
    mNextObjectCBIndex, \* QuadTree::mNextObjectCBIndex
    outNodes,           \* the caller's vector filled by GetVisibleNodes
    outValid,           \* outNodes holds the list of a GetVisibleNodes call made
                        \* after the last call that changed the tree
    lastUpdate,         \* <<[cameraPos, frustumPlanes]>> of the most recent Update
                        \* of the configured tree, <<>> when there was none
    updates,            \* number of Update calls since Initialize
    terrain,            \* the Terrain object: its data members
    lastCall,           \* the last call made on the Terrain, its arguments and result
    firstNoise,         \* the first PerlinNoise call, its arguments and result
    mGeometry,          \* Terrain::mGeometry: the shared vertex and index buffers
                        \* and the submesh of each LOD
    draw,               \* the DrawIndexedInstanced call in progress
    mHeightmapTexture,  \* TerrainApp::mHeightmapTexture: the height texture the
                        \* shaders sample, and whether it came from the DDS file
    mUseWireframe,      \* TerrainApp::mUseWireframe
    keyLatch,           \* the static keyLatch of TerrainApp::HandleKeyboard
    heldFrames          \* for how many HandleKeyboard calls in a row, up to the
                        \* last one, key '1' has been down (0: it was up, or
                        \* there was no call yet)

qtVars == <<mRoot, mTerrainSize, mMinNodeSize, mMaxLODLevels, mLODDistances,
            mVisibleNodeCount, mTotalNodeCount, mNextObjectCBIndex,
            outNodes, outValid, lastUpdate, updates>>

tVars == <<terrain, lastCall, firstNoise>>

gVars == <<mGeometry, draw>>

aVars == <<mHeightmapTexture, mUseWireframe, keyLatch, heldFrames>>

vars == <<qtVars, tVars, gVars, aVars>>

-----------------------------------------------------------------------------
(* Bounds of the model and the inputs the operations are called with.      *)

MaxDepth == 3           \* Initialize is called with maxLODLevels in 1..MaxDepth
MaxUpdates == 2         \* Update calls (frames) per built tree

TerrainSizes == {16}
MinNodeSizes == {4, 8}
LODLevelCounts == 1..MaxDepth

\* tables given to SetLODDistances: empty, shorter and longer than the level count
LODTables == { <<>>, <<6, 14>>, <<3, 11, 13, 15>> }

\* (minY, maxY) given to SetHeightRange
HeightRanges == { <<0, 100>>, <<0, 40>> }

Abs(a) == IF a < 0 THEN -a ELSE a

Vec3(a, b, c) == [x |-> a, y |-> b, z |-> c]
Plane(a, b, c, d) == [x |-> a, y |-> b, z |-> c, w |-> d]

Cameras == { Vec3(0, 50, 0), Vec3(8, 50, 8), Vec3(40, 50, 0) }

\* the four side planes are fixed and wide; near and far planes vary
WideLeft   == Plane(1, 0, 0, 1000)
WideRight  == Plane(-1, 0, 0, 1000)
WideBottom == Plane(0, 1, 0, 1000)
WideTop    == Plane(0, -1, 0, 1000)
WideNear   == Plane(0, 0, 1, 1000)
WideFar    == Plane(0, 0, -1, 1000)

FrustumOf(near, far) == <<WideLeft, WideRight, WideBottom, WideTop, near, far>>

Frusta == { FrustumOf(WideNear, WideFar),             \* everything inside
            FrustumOf(Plane(1, 0, 1, -6), WideFar),   \* x + z >= 6
            FrustumOf(Plane(1, 0, 0, -100), WideFar), \* x >= 100: nothing inside
            FrustumOf(WideNear, Plane(0, -1, 0, 80))  \* y <= 80
          }

-----------------------------------------------------------------------------
(* BoundingBoxAABB                                                         *)

\* positive-vertex test of one plane
PositiveVertex(b, pl) ==
    Vec3(IF pl.x >= 0 THEN b.Center.x + b.Extents.x ELSE b.Center.x - b.Extents.x,
         IF pl.y >= 0 THEN b.Center.y + b.Extents.y ELSE b.Center.y - b.Extents.y,
         IF pl.z >= 0 THEN b.Center.z + b.Extents.z ELSE b.Center.z - b.Extents.z)

PlaneDot(pl, v) == pl.x * v.x + pl.y * v.y + pl.z * v.z + pl.w

Intersects(b, frustumPlanes) ==
    \A p \in 1..6 : ~(PlaneDot(frustumPlanes[p], PositiveVertex(b, frustumPlanes[p])) < 0)

-----------------------------------------------------------------------------
(* TerrainNode and the tree.  A node is named by its path from the root:   *)
(* the sequence of child indices 0..3; Children[i] of p is Append(p, i).   *)

NoTree == [p \in {} |-> 0]

Child(p, i) == Append(p, i)

NewTerrainNode ==
    [X |-> 0, Z |-> 0, Size |-> 0, LODLevel |-> 0, MaxLOD |-> 0,
     Bounds |-> [Center |-> Vec3(0, 0, 0), Extents |-> Vec3(0, 0, 0)],
     MinY |-> 0, MaxY |-> 0, IsLeaf |-> TRUE, IsVisible |-> FALSE,
     ObjectCBIndex |-> 0]

\* the mutant of ChildCentre: the fourth child placed in the second quadrant
ChildCentreRepeated(x, z, quarter, i) ==
    IF i = 0 THEN <<x - quarter, z + quarter>>
    ELSE IF i = 1 THEN <<x + quarter, z + quarter>>
    ELSE IF i = 2 THEN <<x - quarter, z - quarter>>
    ELSE <<x + quarter, z + quarter>>

\* centre (x, z) of Children[i] of a node centred at (x, z)
ChildCentre(x, z, quarter, i) ==
    IF i = 0 THEN <<x - quarter, z + quarter>>
    ELSE IF i = 1 THEN <<x + quarter, z + quarter>>
    ELSE IF i = 2 THEN <<x - quarter, z - quarter>>
    ELSE <<x + quarter, z - quarter>>

\* the mutant of CanSplit: a node of the minimum size is still split
CanSplitAtMinSize(size, depth, minNodeSize, maxLODLevels) ==
    (size >= minNodeSize) /\ (depth < maxLODLevels - 1)

CanSplit(size, depth, minNodeSize, maxLODLevels) ==
    (size > minNodeSize) /\ (depth < maxLODLevels - 1)

RECURSIVE BuildTree(_, _, _, _, _, _, _)
BuildTree(p, x, z, size, depth, minNodeSize, maxLODLevels) ==
    LET minY == 0
        maxY == 100
        yMid == (minY + maxY) \div 2
        yExt == (maxY - minY) \div 2 + 10
        canSplit == CanSplit(size, depth, minNodeSize, maxLODLevels)
        n == [NewTerrainNode EXCEPT
                 !.X = x, !.Z = z, !.Size = size,
                 !.LODLevel = depth, !.MaxLOD = maxLODLevels - 1,
                 !.MinY = minY, !.MaxY = maxY,
                 !.Bounds = [Center |-> Vec3(x, yMid, z),
                             Extents |-> Vec3(size \div 2, yExt, size \div 2)],
                 !.IsLeaf = ~canSplit]
        half == size \div 2
        quarter == size \div 4
        sub(i) == BuildTree(Child(p, i), ChildCentre(x, z, quarter, i)[1],
                            ChildCentre(x, z, quarter, i)[2], half, depth + 1,
                            minNodeSize, maxLODLevels)
    IN  IF ~canSplit
        THEN (p :> n)
        ELSE (p :> n) @@ sub(0) @@ sub(1) @@ sub(2) @@ sub(3)

Pow2(k) == IF k = 0 THEN 1 ELSE IF k = 1 THEN 2 ELSE IF k = 2 THEN 4
           ELSE IF k = 3 THEN 8 ELSE IF k = 4 THEN 16 ELSE 32

\* the table Initialize derives when none is set
DefaultLODDistances(minNodeSize, maxLODLevels) ==
    [i \in 1..maxLODLevels |->
        (minNodeSize * Pow2(maxLODLevels - (i - 1) - 1)) * 2]

-----------------------------------------------------------------------------
(* Update                                                                  *)

\* 4 * (squared 3D distance from the camera to the node centre)
DistSq4(n, cameraPos) ==
    LET dx == cameraPos.x - n.X
        dy2 == 2 * cameraPos.y - (n.MinY + n.MaxY)
        dz == cameraPos.z - n.Z
    IN  4 * dx * dx + dy2 * dy2 + 4 * dz * dz

RECURSIVE FirstBelow(_, _, _, _)
FirstBelow(d4, table, i, fallback) ==
    IF i > Len(table) THEN fallback
    ELSE IF d4 < 4 * table[i] * table[i] THEN i - 1
    ELSE FirstBelow(d4, table, i + 1, fallback)

CalculateLOD(n, cameraPos, table, maxLODLevels) ==
    FirstBelow(DistSq4(n, cameraPos), table, 1, maxLODLevels - 1)

\* the mutant of ShouldSubdivide: the 3D distance in place of the XZ distance
ShouldSubdivideBy3DDistance(n, cameraPos) ==
    IF n.IsLeaf THEN FALSE
    ELSE DistSq4(n, cameraPos) < 9 * n.Size * n.Size

ShouldSubdivide(n, cameraPos) ==
    IF n.IsLeaf THEN FALSE
    ELSE LET dx == cameraPos.x - n.X
             dz == cameraPos.z - n.Z
         IN  4 * (dx * dx + dz * dz) < 9 * n.Size * n.Size

\* st = [node, next, count]: the tree, mNextObjectCBIndex, mVisibleNodeCount
RECURSIVE UpdateNode(_, _, _, _, _, _)
UpdateNode(st, p, cameraPos, frustumPlanes, table, maxLODLevels) ==
    LET n0 == st.node[p]
        vis == Intersects(n0.Bounds, frustumPlanes)
    IN  IF ~vis
        THEN [st EXCEPT !.node[p].IsVisible = FALSE]
        ELSE
          LET lod == CalculateLOD(n0, cameraPos, table, maxLODLevels)
              descend == (~n0.IsLeaf) /\ ShouldSubdivide(n0, cameraPos)
          IN  IF descend
              THEN
                LET s0 == [st EXCEPT !.node[p].IsVisible = FALSE,
                                     !.node[p].LODLevel = lod]
                    s1 == UpdateNode(s0, Child(p, 0), cameraPos, frustumPlanes, table, maxLODLevels)
                    s2 == UpdateNode(s1, Child(p, 1), cameraPos, frustumPlanes, table, maxLODLevels)
                    s3 == UpdateNode(s2, Child(p, 2), cameraPos, frustumPlanes, table, maxLODLevels)
                IN  UpdateNode(s3, Child(p, 3), cameraPos, frustumPlanes, table, maxLODLevels)
              ELSE [st EXCEPT !.node[p].IsVisible = TRUE,
                              !.node[p].LODLevel = lod,
                              !.node[p].ObjectCBIndex = st.next,
                              !.next = st.next + 1,
                              !.count = st.count + 1]

RECURSIVE CollectVisibleNodes(_, _)
\* the mutant of CollectVisibleNodes: the leaf test made before the visibility test
CollectVisibleNodesLeafFirst(node, p) ==
    IF node[p].IsLeaf THEN <<>>
    ELSE IF node[p].IsVisible THEN <<p>>
    ELSE CollectVisibleNodes(node, Child(p, 0))
         \o CollectVisibleNodes(node, Child(p, 1))
         \o CollectVisibleNodes(node, Child(p, 2))
         \o CollectVisibleNodes(node, Child(p, 3))

\* the mutant of CollectVisibleNodes: a listed node's children are visited too
CollectVisibleNodesAndBelow(node, p) ==
    (IF node[p].IsVisible THEN <<p>> ELSE <<>>)
    \o (IF node[p].IsLeaf THEN <<>>
        ELSE CollectVisibleNodes(node, Child(p, 0))
             \o CollectVisibleNodes(node, Child(p, 1))
             \o CollectVisibleNodes(node, Child(p, 2))
             \o CollectVisibleNodes(node, Child(p, 3)))

CollectVisibleNodes(node, p) ==
    IF node[p].IsVisible THEN <<p>>
    ELSE IF node[p].IsLeaf THEN <<>>
    ELSE CollectVisibleNodes(node, Child(p, 0))
         \o CollectVisibleNodes(node, Child(p, 1))
         \o CollectVisibleNodes(node, Child(p, 2))
         \o CollectVisibleNodes(node, Child(p, 3))

-----------------------------------------------------------------------------
(* Operations of QuadTree                                                  *)

\* QuadTree::QuadTree()
QuadTreeInit ==
    /\ mRoot = NoTree
    /\ mTerrainSize = 0
    /\ mMinNodeSize = 0
    /\ mMaxLODLevels = 0
    /\ mLODDistances = <<>>
    /\ mVisibleNodeCount = 0
    /\ mTotalNodeCount = 0
    /\ mNextObjectCBIndex = 0
    /\ outNodes = <<>>
    /\ outValid = FALSE
    /\ lastUpdate = <<>>
    /\ updates = 0

Initialize(terrainSize, minNodeSize, maxLODLevels) ==
    /\ mTerrainSize' = terrainSize
    /\ mMinNodeSize' = minNodeSize
    /\ mMaxLODLevels' = maxLODLevels
    /\ mVisibleNodeCount' = 0
    /\ mNextObjectCBIndex' = 0
    /\ mLODDistances' = IF mLODDistances = <<>>
                        THEN DefaultLODDistances(minNodeSize, maxLODLevels)
                        ELSE mLODDistances
    /\ mRoot' = BuildTree(<<>>, 0, 0, terrainSize, 0, minNodeSize, maxLODLevels)
    /\ mTotalNodeCount' = Cardinality(DOMAIN mRoot')
    /\ outNodes' = <<>>
    /\ outValid' = FALSE
    /\ lastUpdate' = <<>>
    /\ updates' = 0
    /\ UNCHANGED <<tVars, gVars, aVars>>

\* The setters are called while the tree is configured, before its first frame
\* (TerrainApp::Initialize); the frames then call Update and GetVisibleNodes.
SetLODDistances(distances) ==
    /\ updates = 0
    /\ mLODDistances' = distances
    /\ UNCHANGED <<mRoot, mTerrainSize, mMinNodeSize, mMaxLODLevels,
                   mVisibleNodeCount, mTotalNodeCount, mNextObjectCBIndex,
                   outNodes, outValid, lastUpdate, updates>>
    /\ UNCHANGED <<tVars, gVars, aVars>>

\* the mutant of SetHeightRange: the range is given to every node of the tree
SetHeightRangeAllNodes(minY, maxY) ==
    /\ updates = 0
    /\ mRoot' = [p \in DOMAIN mRoot |->
                    [mRoot[p] EXCEPT
                        !.MinY = minY,
                        !.MaxY = maxY,
                        !.Bounds.Center.y = (minY + maxY) \div 2,
                        !.Bounds.Extents.y = (maxY - minY) \div 2 + 10]]
    /\ outNodes' = <<>>
    /\ outValid' = FALSE
    /\ UNCHANGED <<mTerrainSize, mMinNodeSize, mMaxLODLevels, mLODDistances,
                   mVisibleNodeCount, mTotalNodeCount, mNextObjectCBIndex,
                   lastUpdate, updates>>
    /\ UNCHANGED <<tVars, gVars, aVars>>

SetHeightRange(minY, maxY) ==
    /\ updates = 0
    /\ mRoot' = IF mRoot = NoTree THEN mRoot
                ELSE [mRoot EXCEPT
                        ![<<>>].MinY = minY,
                        ![<<>>].MaxY = maxY,
                        ![<<>>].Bounds.Center.y = (minY + maxY) \div 2,
                        ![<<>>].Bounds.Extents.y = (maxY - minY) \div 2 + 10]
    /\ outNodes' = <<>>
    /\ outValid' = FALSE
    /\ UNCHANGED <<mTerrainSize, mMinNodeSize, mMaxLODLevels, mLODDistances,
                   mVisibleNodeCount, mTotalNodeCount, mNextObjectCBIndex,
                   lastUpdate, updates>>
    /\ UNCHANGED <<tVars, gVars, aVars>>

\* the mutant of Update: the counters are not reset
UpdateKeepCounters(cameraPos, frustumPlanes) ==
    /\ updates < MaxUpdates
    /\ LET st0 == [node |-> mRoot, next |-> mNextObjectCBIndex, count |-> mVisibleNodeCount]
           st == IF mRoot = NoTree THEN st0
                 ELSE UpdateNode(st0, <<>>, cameraPos, frustumPlanes,
                                 mLODDistances, mMaxLODLevels)
       IN  /\ mRoot' = st.node
           /\ mNextObjectCBIndex' = st.next
           /\ mVisibleNodeCount' = st.count
    /\ lastUpdate' = <<[cameraPos |-> cameraPos, frustumPlanes |-> frustumPlanes]>>
    /\ updates' = updates + 1
    /\ outNodes' = <<>>
    /\ outValid' = FALSE
    /\ UNCHANGED <<mTerrainSize, mMinNodeSize, mMaxLODLevels, mLODDistances,
                   mTotalNodeCount>>
    /\ UNCHANGED <<tVars, gVars, aVars>>

Update(cameraPos, frustumPlanes) ==
    /\ updates < MaxUpdates
    /\ LET st == IF mRoot = NoTree
                 THEN [node |-> mRoot, next |-> 0, count |-> 0]
                 ELSE UpdateNode([node |-> mRoot, next |-> 0, count |-> 0], <<>>,
                                 cameraPos, frustumPlanes, mLODDistances, mMaxLODLevels)
       IN  /\ mRoot' = st.node
           /\ mNextObjectCBIndex' = st.next
           /\ mVisibleNodeCount' = st.count
    /\ lastUpdate' = <<[cameraPos |-> cameraPos, frustumPlanes |-> frustumPlanes]>>
    /\ updates' = updates + 1
    /\ outNodes' = <<>>
    /\ outValid' = FALSE
    /\ UNCHANGED <<mTerrainSize, mMinNodeSize, mMaxLODLevels, mLODDistances,
                   mTotalNodeCount>>
    /\ UNCHANGED <<tVars, gVars, aVars>>

GetVisibleNodes ==
    /\ outNodes' = IF mRoot = NoTree THEN <<>> ELSE CollectVisibleNodes(mRoot, <<>>)
    /\ outValid' = TRUE
    /\ UNCHANGED <<mRoot, mTerrainSize, mMinNodeSize, mMaxLODLevels, mLODDistances,
                   mVisibleNodeCount, mTotalNodeCount, mNextObjectCBIndex,
                   lastUpdate, updates>>
    /\ UNCHANGED <<tVars, gVars, aVars>>

-----------------------------------------------------------------------------
(* Terrain.  The float values of the heightfield are modelled as exact     *)
(* rationals <<numerator, denominator>> in lowest terms, denominator > 0.  *)

RECURSIVE GCD(_, _)
GCD(a, b) == IF b = 0 THEN a ELSE GCD(b, a % b)

Rat(n, d) ==
    LET g == GCD(Abs(n), Abs(d))
        sg == IF d < 0 THEN -1 ELSE 1
    IN  <<(sg * n) \div g, (sg * d) \div g>>

RInt(n) == <<n, 1>>
RNeg(a) == <<-a[1], a[2]>>
RAdd(a, b) ==
    LET l == (a[2] \div GCD(a[2], b[2])) * b[2]
    IN  Rat(a[1] * (l \div a[2]) + b[1] * (l \div b[2]), l)
RSub(a, b) == RAdd(a, RNeg(b))
RMul(a, b) ==
    LET g1 == GCD(Abs(a[1]), b[2])
        g2 == GCD(Abs(b[1]), a[2])
    IN  Rat((a[1] \div g1) * (b[1] \div g2), (a[2] \div g2) * (b[2] \div g1))
RDiv(a, b) == RMul(a, IF b[1] < 0 THEN <<-b[2], -b[1]>> ELSE <<b[2], b[1]>>)
RLess(a, b) ==
    LET l == (a[2] \div GCD(a[2], b[2])) * b[2]
    IN  a[1] * (l \div a[2]) < b[1] * (l \div b[2])
RMax(a, b) == IF RLess(a, b) THEN b ELSE a
RMin(a, b) == IF RLess(b, a) THEN b ELSE a
RFloor(a) == a[1] \div a[2]

\* range of the C++ int
IntMax == 2147483647
IntMin == -IntMax - 1

PermSize == 256

\* inputs of the model
MaxGrid == 2            \* heightmap width and height are at most MaxGrid
MaxFileLen == 3         \* raster files hold at most MaxFileLen bytes
MaxOctaves == 2         \* GenerateProceduralHeightmap is called with 1..MaxOctaves

\* Terrain::Terrain: base is a shuffle of 0..255, here one of the permutations
\* i -> (a * i + b) mod 256 with a odd
Shuffles == { <<5, 3>>, <<91, 17>> }

Permutation(a, b) ==
    [i \in 1..(2 * PermSize) |-> (a * ((i - 1) % PermSize) + b) % PermSize]

-----------------------------------------------------------------------------
(* Perlin noise                                                            *)

Fade(t) ==
    RMul(RMul(RMul(t, t), t),
         RAdd(RMul(t, RSub(RMul(t, RInt(6)), RInt(15))), RInt(10)))

Lerp(a, b, t) == RAdd(a, RMul(t, RSub(b, a)))

Grad(hash, x, z) ==
    LET h == hash % 4
        u == IF h < 2 THEN x ELSE z
        v == IF h < 2 THEN z ELSE x
        a == IF h % 2 = 1 THEN RNeg(u) ELSE u
        b == IF (h \div 2) % 2 = 1 THEN RNeg(v) ELSE v
    IN  RAdd(a, b)

\* the mutant of PerlinNoise: the lattice cell offset by the heightmap width
PerlinNoiseOffsetByWidth(perm, x0, z0) ==
    LET X == (RFloor(x0) + terrain.mHeightmapWidth) % PermSize
        Z == RFloor(z0) % PermSize
        x == RSub(x0, RInt(RFloor(x0)))
        z == RSub(z0, RInt(RFloor(z0)))
        u == Fade(x)
        v == Fade(z)
        A == perm[X + 1] + Z
        B == perm[X + 2] + Z
        g00 == Grad(perm[A + 1], x, z)
        g10 == Grad(perm[B + 1], RSub(x, RInt(1)), z)
        g01 == Grad(perm[A + 2], x, RSub(z, RInt(1)))
        g11 == Grad(perm[B + 2], RSub(x, RInt(1)), RSub(z, RInt(1)))
    IN  Lerp(Lerp(g00, g10, u), Lerp(g01, g11, u), v)

\* perm is mPermutation, 1-based: perm[k + 1] is mPermutation[k]; a read
\* outside the vector is undefined behaviour, modelled as reading 0
PermAt(perm, k) == IF k \in 0..(Len(perm) - 1) THEN perm[k + 1] ELSE 0

\* the mutant of PerlinIndices: the lattice cell masked with 511
PerlinIndicesMask511(perm, x0, z0) ==
    LET X == RFloor(x0) % (2 * PermSize)
        Z == RFloor(z0) % (2 * PermSize)
    IN  [X |-> X, Z |-> Z,
         A |-> PermAt(perm, X) + Z,
         B |-> PermAt(perm, X + 1) + Z]

\* the lattice cell (X, Z) and the hashes A, B of its two columns; & 255 of an
\* int in two's complement is the non-negative remainder modulo 256
PerlinIndices(perm, x0, z0) ==
    LET X == RFloor(x0) % PermSize
        Z == RFloor(z0) % PermSize
    IN  [X |-> X, Z |-> Z,
         A |-> PermAt(perm, X) + Z,
         B |-> PermAt(perm, X + 1) + Z]

PerlinNoise(perm, x0, z0) ==
    LET ix == PerlinIndices(perm, x0, z0)
        x == RSub(x0, RInt(RFloor(x0)))
        z == RSub(z0, RInt(RFloor(z0)))
        u == Fade(x)
        v == Fade(z)
        g00 == Grad(PermAt(perm, ix.A), x, z)
        g10 == Grad(PermAt(perm, ix.B), RSub(x, RInt(1)), z)
        g01 == Grad(PermAt(perm, ix.A + 1), x, RSub(z, RInt(1)))
        g11 == Grad(PermAt(perm, ix.B + 1), RSub(x, RInt(1)), RSub(z, RInt(1)))
        ix0 == Lerp(g00, g10, u)
        ix1 == Lerp(g01, g11, u)
    IN  Lerp(ix0, ix1, v)

-----------------------------------------------------------------------------
(* Heightfield store                                                       *)

\* a raster file: exists = FALSE when it cannot be opened; the files that can
\* hold the first bytes 255, 204, 153, 102, ... of one raster
RasterByte(k) == (255 - 51 * (k - 1)) % 256
Files == { [exists |-> FALSE, bytes |-> <<>>] }
         \cup { [exists |-> TRUE, bytes |-> [k \in 1..n |-> RasterByte(k)]] :
                    n \in 0..MaxFileLen }

Min2(a, b) == IF a < b THEN a ELSE b
Max2(a, b) == IF a > b THEN a ELSE b

\* [ok, got, terrain]: the return value, the number of bytes in.read stored
\* into raw (its other elements stay 0) and the Terrain afterwards
LoadHeightmap(t, file, width, height, is16Bit) ==
    IF ~file.exists
    THEN [ok |-> FALSE, got |-> 0, terrain |-> t]
    ELSE
      LET count == width * height
          bps == IF is16Bit THEN 2 ELSE 1
          got == Min2(Len(file.bytes), count * bps)
          byteAt(k) == IF k < got THEN file.bytes[k + 1] ELSE 0
          raw(i) == IF is16Bit THEN byteAt(2 * i) + 256 * byteAt(2 * i + 1)
                    ELSE byteAt(i)
      IN  [ok |-> TRUE, got |-> got,
           terrain |-> [t EXCEPT
                          !.mHeightmapWidth = width,
                          !.mHeightmapHeight = height,
                          !.mHeightmap = [i \in 1..count |->
                              Rat(raw(i - 1), IF is16Bit THEN 65535 ELSE 255)]]]

RECURSIVE OctaveSum(_, _, _, _, _, _)
\* <<sum, ampSum>> after the octaves o..octaves-1
OctaveSum(perm, nx, nz, freq, amp, left) ==
    IF left = 0 THEN <<RInt(0), RInt(0)>>
    ELSE LET rest == OctaveSum(perm, nx, nz, RMul(freq, RInt(2)),
                               RMul(amp, <<1, 2>>), left - 1)
         IN  <<RAdd(RMul(PerlinNoise(perm, RMul(nx, freq), RMul(nz, freq)), amp), rest[1]),
               RAdd(amp, rest[2])>>

CellValue(perm, x, z, width, height, frequency, octaves) ==
    LET s == OctaveSum(perm, Rat(x, width), Rat(z, height), frequency, RInt(1), octaves)
    IN  RMul(RAdd(RDiv(s[1], s[2]), RInt(1)), <<1, 2>>)

RECURSIVE FoldMax(_, _, _)
FoldMax(q, i, hi) == IF i > Len(q) THEN hi ELSE FoldMax(q, i + 1, RMax(hi, q[i]))
RECURSIVE FoldMin(_, _, _)
FoldMin(q, i, lo) == IF i > Len(q) THEN lo ELSE FoldMin(q, i + 1, RMin(lo, q[i]))

\* the mutant of Rescale: divides by hi instead of the range
RescaleByHi(q, lo, hi) ==
    LET range == RSub(hi, lo)
    IN  IF RLess(<<1, 1000>>, range)
        THEN [i \in 1..Len(q) |-> RDiv(RSub(q[i], lo), hi)]
        ELSE q

Rescale(q, lo, hi) ==
    LET range == RSub(hi, lo)
    IN  IF RLess(<<1, 1000>>, range)
        THEN [i \in 1..Len(q) |-> RDiv(RSub(q[i], lo), range)]
        ELSE q

\* [unscaled, heightmap]: the grid before and after the rescale
GenerateProceduralHeightmap(perm, width, height, frequency, octaves) ==
    LET unscaled == [i \in 1..(width * height) |->
                        CellValue(perm, (i - 1) % width, (i - 1) \div width,
                                  width, height, frequency, octaves)]
        hi == FoldMax(unscaled, 1, RInt(0))
        lo == FoldMin(unscaled, 1, RInt(1))
    IN  [unscaled |-> unscaled, heightmap |-> Rescale(unscaled, lo, hi)]

\* the mutant of SampleHeight: clamps to the width and height, not to width-1, height-1
SampleHeightClampToSize(t, x0, z0) ==
    LET x == Max2(0, Min2(x0, t.mHeightmapWidth))
        z == Max2(0, Min2(z0, t.mHeightmapHeight))
        index == z * t.mHeightmapWidth + x
    IN  [col |-> x, row |-> z, index |-> index,
         value |-> IF index \in 0..(Len(t.mHeightmap) - 1)
                   THEN t.mHeightmap[index + 1] ELSE RInt(0)]

\* the element read and its value; a read outside the vector is undefined
\* behaviour, modelled as reading 0
SampleHeight(t, x0, z0) ==
    LET maxX == t.mHeightmapWidth - 1
        maxZ == t.mHeightmapHeight - 1
        x == Max2(0, Min2(x0, maxX))
        z == Max2(0, Min2(z0, maxZ))
        index == z * t.mHeightmapWidth + x
    IN  [col |-> x, row |-> z, index |-> index,
         value |-> IF index \in 0..(Len(t.mHeightmap) - 1)
                   THEN t.mHeightmap[index + 1] ELSE RInt(0)]

\* A world or texel coordinate is [huge, q]: the rational q, or with huge = TRUE
\* a float whose texel coordinate is outside the range of int (q is then its sign).
Coord(n, d) == [huge |-> FALSE, q |-> Rat(n, d)]
HugeCoord(sign) == [huge |-> TRUE, q |-> RInt(sign)]

\* (x / mTerrainSize + 0.5f) * dim
ToTexel(c, terrainSize, dim) ==
    IF c.huge THEN c
    ELSE [huge |-> FALSE,
          q |-> RMul(RAdd(RDiv(c.q, RInt(terrainSize)), <<1, 2>>), RInt(dim))]

\* (int)std::floor(u): undefined behaviour when u is outside the range of int,
\* the outcome is then ub.conv
FloorToInt(u, ub) == IF u.huge THEN ub.conv ELSE RFloor(u.q)

\* i + 1 in int: signed overflow is undefined behaviour, the outcome is ub.wrap
PlusOne(i, ub) == IF i = IntMax THEN ub.wrap ELSE i + 1

\* the mutant of Bilinear: interpolates from the right-hand samples
BilinearFromRight(h00, h10, h01, h11, fx, fz) ==
    LET hx0 == RAdd(h10, RMul(RSub(h10, h00), fx))
        hx1 == RAdd(h11, RMul(RSub(h11, h01), fx))
    IN  RAdd(hx0, RMul(RSub(hx1, hx0), fz))

Bilinear(h00, h10, h01, h11, fx, fz) ==
    LET hx0 == RAdd(h00, RMul(RSub(h10, h00), fx))
        hx1 == RAdd(h01, RMul(RSub(h11, h01), fx))
    IN  RAdd(hx0, RMul(RSub(hx1, hx0), fz))

\* [defined, value, reads]: the height (not a number the model follows when a
\* coordinate is huge) and the elements of mHeightmap that were read
GetHeight(t, x, z, ub) ==
    IF Len(t.mHeightmap) = 0
    THEN [defined |-> TRUE, value |-> RInt(0), reads |-> {}]
    ELSE
      LET u == ToTexel(x, t.mTerrainSize, t.mHeightmapWidth)
          v == ToTexel(z, t.mTerrainSize, t.mHeightmapHeight)
          x0 == FloorToInt(u, ub)
          z0 == FloorToInt(v, ub)
          s00 == SampleHeight(t, x0, z0)
          s10 == SampleHeight(t, PlusOne(x0, ub), z0)
          s01 == SampleHeight(t, x0, PlusOne(z0, ub))
          s11 == SampleHeight(t, PlusOne(x0, ub), PlusOne(z0, ub))
          reads == { [col |-> s.col, row |-> s.row, index |-> s.index] :
                        s \in {s00, s10, s01, s11} }
      IN  IF u.huge \/ v.huge
          THEN [defined |-> FALSE, value |-> RInt(0), reads |-> reads]
          ELSE
            LET fx == RSub(u.q, RInt(x0))
                fz == RSub(v.q, RInt(z0))
                h == Bilinear(s00.value, s10.value, s01.value, s11.value, fx, fz)
            IN  [defined |-> TRUE,
                 value |-> RAdd(RInt(t.mMinHeight),
                                RMul(h, RInt(t.mMaxHeight - t.mMinHeight))),
                 reads |-> reads]

CoordAdd(c, d) == IF c.huge THEN c ELSE [huge |-> FALSE, q |-> RAdd(c.q, d)]

\* [defined, n, reads]: the vector before XMVector3Normalize.  With an empty
\* grid the step is infinite and the result is not a number.
GetNormal(t, x, z, ub) ==
    IF t.mHeightmapWidth = 0
    THEN [defined |-> FALSE, n |-> <<RInt(0), RInt(0), RInt(0)>>, reads |-> {}]
    ELSE
      LET step == Rat(t.mTerrainSize, t.mHeightmapWidth)
          hL == GetHeight(t, CoordAdd(x, RNeg(step)), z, ub)
          hR == GetHeight(t, CoordAdd(x, step), z, ub)
          hD == GetHeight(t, x, CoordAdd(z, RNeg(step)), ub)
          hU == GetHeight(t, x, CoordAdd(z, step), ub)
      IN  [defined |-> hL.defined /\ hR.defined /\ hD.defined /\ hU.defined,
           n |-> <<RSub(hL.value, hR.value), RMul(RInt(2), step),
                   RSub(hD.value, hU.value)>>,
           reads |-> hL.reads \cup hR.reads \cup hD.reads \cup hU.reads]

-----------------------------------------------------------------------------
(* Operations of Terrain                                                   *)

\* Terrain::Terrain(device, cmdList, terrainSize, minHeight, maxHeight)
NewTerrain(terrainSize, minHeight, maxHeight, shuffle) ==
    [mTerrainSize |-> terrainSize, mMinHeight |-> minHeight, mMaxHeight |-> maxHeight,
     mHeightmapWidth |-> 0, mHeightmapHeight |-> 0, mHeightmap |-> <<>>,
     mPermutation |-> Permutation(shuffle[1], shuffle[2])]

\* (terrainSize, minHeight, maxHeight) the Terrain is constructed with
TerrainParams == { <<8, -4, 6>> }

NoisePoints == { <<<<1, 2>>, <<1, 2>>>>, <<<<-1, 3>>, <<5, 4>>>>, <<<<7, 2>>, <<0, 1>>>> }

NoCall == [op |-> "none"]

\* mGeometry before BuildGeometry, and no draw call in progress
NoGeometry == [built |-> FALSE]
NoDraw == [lod |-> -1]

\* TerrainApp::mHeightmapTexture before TerrainApp::Initialize
NoTexture == [width |-> 0, height |-> 0, texels |-> <<>>, fromFile |-> FALSE]

\* firstNoise: what PerlinNoise returns at each point when it is called on the
\* newly constructed Terrain
TerrainInit ==
    /\ terrain \in { NewTerrain(tp[1], tp[2], tp[3], sh) : tp \in TerrainParams, sh \in Shuffles }
    /\ lastCall = NoCall
    /\ firstNoise = [pt \in NoisePoints |-> PerlinNoise(terrain.mPermutation, pt[1], pt[2])]
    /\ mGeometry = NoGeometry
    /\ draw = NoDraw
    /\ mHeightmapTexture = NoTexture
    /\ mUseWireframe = FALSE
    /\ keyLatch = FALSE
    /\ heldFrames = 0

\* the Terrain of the runs that exercise the quadtree alone
TerrainIdle ==
    /\ terrain = NewTerrain(8, 0, 10, <<5, 3>>)
    /\ lastCall = NoCall
    /\ firstNoise = [pt \in NoisePoints |-> PerlinNoise(terrain.mPermutation, pt[1], pt[2])]
    /\ mGeometry = NoGeometry
    /\ draw = NoDraw
    /\ mHeightmapTexture = NoTexture
    /\ mUseWireframe = FALSE
    /\ keyLatch = FALSE
    /\ heldFrames = 0

\* Calls are made one at a time: a call records its result in lastCall, and
\* Return hands it to the caller before the next call is made.
LoadHeightmapCall(file, width, height, is16Bit) ==
    /\ lastCall = NoCall
    /\ LET r == LoadHeightmap(terrain, file, width, height, is16Bit)
       IN  /\ terrain' = r.terrain
           /\ lastCall' = [op |-> "LoadHeightmap", ok |-> r.ok, exists |-> file.exists,
                           dataLen |-> Len(file.bytes), got |-> r.got,
                           needed |-> width * height * (IF is16Bit THEN 2 ELSE 1)]
    /\ UNCHANGED <<firstNoise, qtVars, gVars, aVars>>

GenerateProceduralHeightmapCall(width, height, frequency, octaves) ==
    /\ lastCall = NoCall
    /\ LET r == GenerateProceduralHeightmap(terrain.mPermutation, width, height,
                                            frequency, octaves)
       IN  /\ terrain' = [terrain EXCEPT !.mHeightmapWidth = width,
                                         !.mHeightmapHeight = height,
                                         !.mHeightmap = r.heightmap]
           /\ lastCall' = [op |-> "GenerateProceduralHeightmap", unscaled |-> r.unscaled]
    /\ UNCHANGED <<firstNoise, qtVars, gVars, aVars>>

\* world coordinates of the queries: the centre of every texel column (row) and
\* the edge after the last, half a texel before the first and after the second
\* edge, ten terrain sizes away, and floats too large for int
WorldCoords(t, dim) ==
    { Coord(t.mTerrainSize * (k - dim), 2 * Max2(dim, 1)) :
          k \in {-1, 1} \cup { 2 * c : c \in 0..dim } }
    \cup { Coord(10 * t.mTerrainSize, 1), Coord(-10 * t.mTerrainSize, 1),
           HugeCoord(1), HugeCoord(-1) }

UBOutcomes == { [conv |-> c, wrap |-> w] : c \in {IntMin, 0, IntMax}, w \in {IntMin, IntMax} }

UBFor(x, z) == IF x.huge \/ z.huge THEN UBOutcomes ELSE { [conv |-> 0, wrap |-> IntMin] }

GetHeightCall(x, z, ub) ==
    /\ lastCall = NoCall
    /\ lastCall' = [op |-> "GetHeight", x |-> x, z |-> z, result |-> GetHeight(terrain, x, z, ub)]
    /\ UNCHANGED <<terrain, firstNoise, qtVars, gVars, aVars>>

GetNormalCall(x, z, ub) ==
    /\ lastCall = NoCall
    /\ lastCall' = [op |-> "GetNormal", x |-> x, z |-> z, result |-> GetNormal(terrain, x, z, ub)]
    /\ UNCHANGED <<terrain, firstNoise, qtVars, gVars, aVars>>

PerlinNoiseCall(x, z) ==
    /\ lastCall = NoCall
    /\ lastCall' = [op |-> "PerlinNoise", x |-> x, z |-> z,
                    indices |-> PerlinIndices(terrain.mPermutation, x, z),
                    result |-> PerlinNoise(terrain.mPermutation, x, z)]
    /\ UNCHANGED <<terrain, firstNoise, qtVars, gVars, aVars>>

\* hashes and points Grad is called with
Hashes == { 0, 1, 2, 3, 7 }
GradPoints == { <<RInt(1), RInt(0)>>, <<RInt(0), RInt(1)>> }

GradCall(hash, x, z) ==
    /\ lastCall = NoCall
    /\ lastCall' = [op |-> "Grad", hash |-> hash, x |-> x, z |-> z,
                    result |-> Grad(hash, x, z)]
    /\ UNCHANGED <<terrain, firstNoise, qtVars, gVars, aVars>>

Return ==
    /\ lastCall # NoCall
    /\ lastCall' = NoCall
    /\ UNCHANGED <<terrain, firstNoise, qtVars, gVars, aVars>>

-----------------------------------------------------------------------------
(* Mesh templates.  BuildGeometry lays the grids of the 5 LODs one after    *)
(* the other in one vertex buffer and one index buffer.  The resolutions   *)
(* of the code are 256, 128, 64, 32, 16 quads per side; the model keeps    *)
(* the halving and the 5 LODs and takes MaxQuads for the finest grid.      *)
(* The UINT values of the code stay far below 2^32.                        *)

MaxQuads == 16          \* quads per side of the finest grid
NumLODs == 5

kGrid == [lod \in 0..(NumLODs - 1) |-> MaxQuads \div Pow2(lod)]

\* the (grid+1)^2 vertices of one grid, row by row
GridVertices(grid) ==
    [k \in 1..((grid + 1) * (grid + 1)) |->
        LET z == (k - 1) \div (grid + 1)
            x == (k - 1) % (grid + 1)
            u == Rat(x, grid)
            w == Rat(z, grid)
        IN  [Pos |-> <<RSub(u, <<1, 2>>), RInt(0), RSub(w, <<1, 2>>)>>,
             Normal |-> <<RInt(0), RInt(1), RInt(0)>>,
             TexC |-> <<u, w>>]]

\* the 6 indices of each of the grid^2 quads: i0, i2, i1, i1, i2, i3
GridIndices(grid, vtxStart) ==
    [k \in 1..(6 * grid * grid) |->
        LET quad == (k - 1) \div 6
            z == quad \div grid
            x == quad % grid
            rowStride == grid + 1
            i0 == vtxStart + z * rowStride + x
            i1 == i0 + 1
            i2 == vtxStart + (z + 1) * rowStride + x
            i3 == i2 + 1
        IN  <<i0, i2, i1, i1, i2, i3>>[((k - 1) % 6) + 1]]

\* the mutant of Submesh: the start of the vertex block as BaseVertexLocation
SubmeshBaseAtBlock(grid, idxStart, vtxStart) ==
    [IndexCount |-> grid * grid * 6,
     StartIndexLocation |-> idxStart,
     BaseVertexLocation |-> vtxStart]

Submesh(grid, idxStart, vtxStart) ==
    [IndexCount |-> grid * grid * 6,
     StartIndexLocation |-> idxStart,
     BaseVertexLocation |-> 0]

\* the loop over the LODs; DrawArgs[lod + 1] is DrawArgs[GetLODMeshName(lod)]
RECURSIVE BuildLODs(_, _)
BuildLODs(g, lod) ==
    IF lod >= NumLODs THEN g
    ELSE LET grid == kGrid[lod]
             vtxStart == Len(g.verts)
             idxStart == Len(g.inds)
         IN  BuildLODs([g EXCEPT
                          !.verts = @ \o GridVertices(grid),
                          !.inds = @ \o GridIndices(grid, vtxStart),
                          !.DrawArgs = Append(@, Submesh(grid, idxStart, vtxStart))],
                       lod + 1)

BuildGeometry ==
    BuildLODs([built |-> TRUE, verts |-> <<>>, inds |-> <<>>, DrawArgs |-> <<>>], 0)

BuildGeometryCall ==
    /\ draw = NoDraw
    /\ mGeometry' = BuildGeometry
    /\ UNCHANGED <<draw, tVars, qtVars, aVars>>

\* the LOD whose name GetLODMeshName(lod) returns
GetLODMeshName(lod) == IF lod < 0 \/ lod >= 5 THEN 0 ELSE lod

\* TerrainApp::DrawTerrainNodes, one node of LOD level LODLevel: the draw call
\* is issued with the submesh of its mesh template
DrawIndexedInstanced(LODLevel) ==
    /\ mGeometry # NoGeometry
    /\ draw = NoDraw
    /\ draw' = [lod |-> GetLODMeshName(IF LODLevel < 4 THEN LODLevel ELSE 4),
                fetched |-> 0, vertex |-> -1]
    /\ UNCHANGED <<mGeometry, tVars, qtVars, aVars>>

\* the draw call reads its next index: the vertex addressed is
\* inds[StartIndexLocation + k] + BaseVertexLocation
FetchIndex ==
    /\ draw # NoDraw
    /\ LET sm == mGeometry.DrawArgs[draw.lod + 1]
       IN  /\ draw.fetched < sm.IndexCount
           /\ draw' = [draw EXCEPT
                          !.fetched = @ + 1,
                          !.vertex = mGeometry.inds[sm.StartIndexLocation + draw.fetched + 1]
                                         + sm.BaseVertexLocation]
    /\ UNCHANGED <<mGeometry, tVars, qtVars, aVars>>

EndDraw ==
    /\ draw # NoDraw
    /\ draw.fetched = mGeometry.DrawArgs[draw.lod + 1].IndexCount
    /\ draw' = NoDraw
    /\ UNCHANGED <<mGeometry, tVars, qtVars, aVars>>

-----------------------------------------------------------------------------
(* TerrainApp.  Initialize builds the Terrain, the quadtree and the height *)
(* texture; Update is called once per frame.  The heights of the DDS file   *)
(* and of the texture are normalized heights, exact rationals.             *)

MaxFrames == 3          \* frames (TerrainApp::Update calls) after Initialize

\* the model's grid for GenerateProceduralHeightmap(256, 256, 4.0f, 6)
FallbackGrid == 3

\* the mutant of maxObjects: an object constant buffer of 16 elements
maxObjectsSixteen == 4 * 4

\* the number of elements of each frame's object constant buffer
maxObjects == 256

\* TerrainDetails/003/Height_Out.dds on disk: absent, or width x height heights
NoFile == [exists |-> FALSE, width |-> 0, height |-> 0, texels |-> <<>>]

DDSFiles ==
    { NoFile,
      [exists |-> TRUE, width |-> 2, height |-> 2,
       texels |-> << <<0, 1>>, <<1, 4>>, <<3, 4>>, <<1, 1>> >>],
      [exists |-> TRUE, width |-> 3, height |-> 1,
       texels |-> << <<1, 2>>, <<1, 2>>, <<1, 2>> >>] }

\* [ok, texture]: the texture resource holds the texels of the file
CreateDDSTextureFromFile12(file) ==
    IF file.exists
    THEN [ok |-> TRUE,
          texture |-> [width |-> file.width, height |-> file.height,
                       texels |-> file.texels, fromFile |-> TRUE]]
    ELSE [ok |-> FALSE, texture |-> NoTexture]

\* [ok, terrain]
LoadHeightmapDDS(t, file) ==
    LET r == CreateDDSTextureFromFile12(file)
    IN  IF ~r.ok THEN [ok |-> FALSE, terrain |-> t]
        ELSE
          LET w == r.texture.width
              h == r.texture.height
          IN  [ok |-> TRUE,
               terrain |->
                 [t EXCEPT
                    !.mHeightmapWidth = w,
                    !.mHeightmapHeight = h,
                    !.mHeightmap =
                       [i \in 1..(w * h) |->
                          LET fx == Rat((i - 1) % w, w)
                              fz == Rat((i - 1) \div w, h)
                              n == PerlinNoise(t.mPermutation, RMul(fx, RInt(4)),
                                               RMul(fz, RInt(4)))
                          IN  RAdd(RMul(n, <<1, 2>>), <<1, 2>>)]]]

\* the texture TerrainApp::BuildDescriptorHeaps leaves in mHeightmapTexture
BuildDescriptorHeaps(t, file) ==
    LET r == CreateDDSTextureFromFile12(file)
    IN  IF r.ok THEN r.texture
        ELSE
          LET width == t.mHeightmapWidth
              height == t.mHeightmapHeight
              half == RMul(RInt(t.mTerrainSize), <<1, 2>>)
              World(k, dim) ==
                  [huge |-> FALSE,
                   q |-> RSub(RMul(Rat(k, dim), RInt(t.mTerrainSize)), half)]
          IN  [width |-> width, height |-> height, fromFile |-> FALSE,
               texels |->
                 [i \in 1..(width * height) |->
                    LET worldX == World((i - 1) % width, width)
                        worldZ == World((i - 1) \div width, height)
                        h == GetHeight(t, worldX, worldZ, [conv |-> 0, wrap |-> IntMin]).value
                    IN  RDiv(RSub(h, RInt(t.mMinHeight)),
                             RInt(t.mMaxHeight - t.mMinHeight))]]

\* TerrainApp::mLodDistances
mLodDistances == <<100, 200, 400, 600, 1000>>

\* mTerrain once TerrainApp::Initialize has constructed it and given it a grid:
\* from LoadHeightmapDDS, or when that fails from GenerateProceduralHeightmap
LoadOrGenerateHeightmap(file, shuffle) ==
    LET t0 == NewTerrain(512, 0, 150, shuffle)
        dds == LoadHeightmapDDS(t0, file)
    IN  IF dds.ok THEN dds.terrain
        ELSE [t0 EXCEPT
                !.mHeightmapWidth = FallbackGrid,
                !.mHeightmapHeight = FallbackGrid,
                !.mHeightmap =
                   GenerateProceduralHeightmap(t0.mPermutation, FallbackGrid,
                       FallbackGrid, RInt(4), MaxOctaves).heightmap]

\* TerrainApp::Initialize, with the file on disk and the shuffle the Terrain's
\* constructor draws
TerrainAppInitialize(file, shuffle) ==
    /\ mRoot = NoTree
    /\ \E t1 \in { LoadOrGenerateHeightmap(file, shuffle) } :
       LET minNodeSize == t1.mTerrainSize \div 8
           tree == BuildTree(<<>>, 0, 0, t1.mTerrainSize, 0, minNodeSize, 5)
           minY == t1.mMinHeight
           maxY == t1.mMaxHeight
       IN  /\ terrain' = t1
           /\ firstNoise' = [pt \in NoisePoints |->
                                PerlinNoise(t1.mPermutation, pt[1], pt[2])]
           /\ mGeometry' = BuildGeometry
           /\ mLODDistances' = mLodDistances
           /\ mTerrainSize' = t1.mTerrainSize
           /\ mMinNodeSize' = minNodeSize
           /\ mMaxLODLevels' = 5
           /\ mRoot' = [tree EXCEPT
                          ![<<>>].MinY = minY,
                          ![<<>>].MaxY = maxY,
                          ![<<>>].Bounds.Center.y = (minY + maxY) \div 2,
                          ![<<>>].Bounds.Extents.y = (maxY - minY) \div 2 + 10]
           /\ mTotalNodeCount' = Cardinality(DOMAIN tree)
           /\ mHeightmapTexture' = BuildDescriptorHeaps(t1, file)
    /\ mVisibleNodeCount' = 0
    /\ mNextObjectCBIndex' = 0
    /\ outNodes' = <<>>
    /\ outValid' = FALSE
    /\ lastUpdate' = <<>>
    /\ updates' = 0
    /\ UNCHANGED <<lastCall, draw, mUseWireframe, keyLatch, heldFrames>>

\* the mutant of HandleKeyboard: the latch is never set
HandleKeyboardNoLatch(keyDown, useWireframe, latch) ==
    IF keyDown
    THEN IF ~latch
         THEN [mUseWireframe |-> ~useWireframe, keyLatch |-> FALSE]
         ELSE [mUseWireframe |-> useWireframe, keyLatch |-> latch]
    ELSE [mUseWireframe |-> useWireframe, keyLatch |-> FALSE]

\* the wireframe toggle of TerrainApp::HandleKeyboard; keyDown is
\* GetAsyncKeyState('1') & 0x8000
HandleKeyboard(keyDown, useWireframe, latch) ==
    IF keyDown
    THEN IF ~latch
         THEN [mUseWireframe |-> ~useWireframe, keyLatch |-> TRUE]
         ELSE [mUseWireframe |-> useWireframe, keyLatch |-> latch]
    ELSE [mUseWireframe |-> useWireframe, keyLatch |-> FALSE]

\* the elements of the frame's object constant buffer that UpdatePerObjectCB
\* writes, one per position of mDrawNodes
UpdatePerObjectCB(nodes) == 0..(Len(nodes) - 1)

\* the camera after TickCamera and the planes ExtractFrustumPlanes derives
AppCameras == { Vec3(0, 500, -400), Vec3(0, 100, 0) }

AppFrusta == { FrustumOf(WideNear, WideFar),             \* everything inside
               FrustumOf(Plane(1, 0, 0, -300), WideFar)  \* x >= 300: nothing inside
             }

\* TerrainApp::Update, one frame: outNodes is mDrawNodes
TerrainAppUpdate(keyDown, cameraPos, frustumPlanes) ==
    /\ mRoot # NoTree
    /\ updates < MaxFrames
    /\ LET k == HandleKeyboard(keyDown, mUseWireframe, keyLatch)
       IN  /\ mUseWireframe' = k.mUseWireframe
           /\ keyLatch' = k.keyLatch
    /\ heldFrames' = IF keyDown THEN heldFrames + 1 ELSE 0
    /\ LET st == UpdateNode([node |-> mRoot, next |-> 0, count |-> 0], <<>>,
                            cameraPos, frustumPlanes, mLODDistances, mMaxLODLevels)
       IN  /\ mRoot' = st.node
           /\ mNextObjectCBIndex' = st.next
           /\ mVisibleNodeCount' = st.count
           /\ outNodes' = CollectVisibleNodes(st.node, <<>>)
    /\ outValid' = TRUE
    /\ lastUpdate' = <<[cameraPos |-> cameraPos, frustumPlanes |-> frustumPlanes]>>
    /\ updates' = updates + 1
    /\ UNCHANGED <<mTerrainSize, mMinNodeSize, mMaxLODLevels, mLODDistances,
                   mTotalNodeCount, mHeightmapTexture>>
    /\ UNCHANGED <<tVars, gVars>>

-----------------------------------------------------------------------------
(* Specifications                                                          *)

Init == QuadTreeInit /\ TerrainIdle

Next ==
    \/ \E f \in TerrainSizes, m \in MinNodeSizes, d \in LODLevelCounts : Initialize(f, m, d)
    \/ \E t \in LODTables : SetLODDistances(t)
    \/ \E r \in HeightRanges : SetHeightRange(r[1], r[2])
    \/ \E c \in Cameras, f \in Frusta : Update(c, f)
    \/ GetVisibleNodes

\* the quadtree: QuadTree's operations in any order
Spec == Init /\ [][Next]_vars

GridSizes == 0..MaxGrid
Frequencies == { RInt(1), RInt(2) }

TerrainNext ==
    \/ \E file \in Files, w \in GridSizes, h \in GridSizes, b \in BOOLEAN :
          LoadHeightmapCall(file, w, h, b)
    \/ \E w \in 1..MaxGrid, h \in 1..MaxGrid, f \in Frequencies, o \in 1..MaxOctaves :
          GenerateProceduralHeightmapCall(w, h, f, o)
    \/ \E x \in WorldCoords(terrain, terrain.mHeightmapWidth),
          z \in WorldCoords(terrain, terrain.mHeightmapHeight) :
          \E ub \in UBFor(x, z) : GetHeightCall(x, z, ub)
    \/ \E x \in WorldCoords(terrain, terrain.mHeightmapWidth),
          z \in WorldCoords(terrain, terrain.mHeightmapHeight) :
          \E ub \in UBFor(x, z) : GetNormalCall(x, z, ub)
    \/ \E pt \in NoisePoints : PerlinNoiseCall(pt[1], pt[2])
    \/ \E h \in Hashes, pt \in GradPoints : GradCall(h, pt[1], pt[2])
    \/ Return

\* the heightfield store: Terrain's operations in any order
TerrainSpecInit == QuadTreeInit /\ TerrainInit

TerrainSpec == TerrainSpecInit /\ [][TerrainNext]_vars

\* the node LOD levels DrawTerrainNodes is given
DrawnLODLevels == 0..NumLODs

GeometryNext ==
    \/ BuildGeometryCall
    \/ \E l \in DrawnLODLevels : DrawIndexedInstanced(l)
    \/ FetchIndex
    \/ EndDraw

\* the mesh templates: built, then drawn LOD by LOD
GeometrySpec == Init /\ [][GeometryNext]_vars

AppNext ==
    \/ \E file \in DDSFiles, sh \in Shuffles : TerrainAppInitialize(file, sh)
    \/ \E k \in BOOLEAN, c \in AppCameras, f \in AppFrusta : TerrainAppUpdate(k, c, f)

\* the application: Initialize, then one Update per frame
AppSpec == Init /\ [][AppNext]_vars

-----------------------------------------------------------------------------
(* Properties of the quadtree                                              *)

HasUpdate == lastUpdate # <<>> /\ mRoot # NoTree
CurCamera == lastUpdate[1].cameraPos
CurPlanes == lastUpdate[1].frustumPlanes

Listed(p) == \E i \in 1..Len(outNodes) : outNodes[i] = p

Ancestors(p) == { SubSeq(p, 1, k) : k \in 0..(Len(p) - 1) }

\* the most recent Update descended into node q
Descended(q) ==
    /\ Intersects(mRoot[q].Bounds, CurPlanes)
    /\ ~mRoot[q].IsLeaf
    /\ ShouldSubdivide(mRoot[q], CurCamera)

\* the most recent Update called UpdateNode on p
Reached(p) == \A q \in Ancestors(p) : Descended(q)

\* the most recent Update computed the LOD of p
Evaluated(p) == Reached(p) /\ Intersects(mRoot[p].Bounds, CurPlanes)

NegativeVertex(b, pl) ==
    Vec3(IF pl.x >= 0 THEN b.Center.x - b.Extents.x ELSE b.Center.x + b.Extents.x,
         IF pl.y >= 0 THEN b.Center.y - b.Extents.y ELSE b.Center.y + b.Extents.y,
         IF pl.z >= 0 THEN b.Center.z - b.Extents.z ELSE b.Center.z + b.Extents.z)

\* every corner of the box is on the non-negative side of all 6 planes
FullyInside(b, frustumPlanes) ==
    \A i \in 1..6 : PlaneDot(frustumPlanes[i], NegativeVertex(b, frustumPlanes[i])) >= 0

\* C1: after Update calls on a built tree, every node in the list returned by
\* GetVisibleNodes has a bounding box that passes Intersects for the planes of
\* the most recent Update (no node entirely behind one plane is listed).
C1_ListedNodesIntersect ==
    (outValid /\ HasUpdate) =>
        \A i \in 1..Len(outNodes) : Intersects(mRoot[outNodes[i]].Bounds, CurPlanes)

\* the tree as Initialize and SetHeightRange left it, before any Update
BuiltTree ==
    LET t == BuildTree(<<>>, 0, 0, mTerrainSize, 0, mMinNodeSize, mMaxLODLevels)
    IN  [t EXCEPT ![<<>>].MinY = mRoot[<<>>].MinY,
                  ![<<>>].MaxY = mRoot[<<>>].MaxY,
                  ![<<>>].Bounds = mRoot[<<>>].Bounds]

\* that tree after the most recent Update alone
FreshlyUpdated ==
    UpdateNode([node |-> BuiltTree, next |-> 0, count |-> 0], <<>>,
               CurCamera, CurPlanes, mLODDistances, mMaxLODLevels).node

ListWithLOD(node, list) ==
    [i \in 1..Len(list) |-> <<list[i], node[list[i]].LODLevel>>]

\* C2: the list returned by GetVisibleNodes after Update(c, P), with the LOD
\* levels of its nodes, is the list an identically built tree returns whose
\* only Update was Update(c, P): it does not depend on earlier Update calls.
C2_ListDependsOnlyOnLastUpdate ==
    (outValid /\ HasUpdate) =>
        ListWithLOD(mRoot, outNodes)
            = ListWithLOD(FreshlyUpdated, CollectVisibleNodes(FreshlyUpdated, <<>>))

Leaves == { p \in DOMAIN mRoot : mRoot[p].IsLeaf }

InteriorsDisjoint(a, b) ==
    \/ 2 * Abs(a.X - b.X) >= a.Size + b.Size
    \/ 2 * Abs(a.Z - b.Z) >= a.Size + b.Size

InsideRootSquare(a) ==
    /\ 2 * a.X - a.Size >= -mTerrainSize
    /\ 2 * a.X + a.Size <= mTerrainSize
    /\ 2 * a.Z - a.Size >= -mTerrainSize
    /\ 2 * a.Z + a.Size <= mTerrainSize

RECURSIVE AreaSum(_)
AreaSum(S) ==
    IF S = {} THEN 0
    ELSE LET p == CHOOSE q \in S : TRUE
         IN  mRoot[p].Size * mRoot[p].Size + AreaSum(S \ {p})

\* C3: in a tree built by Initialize(F, M, D) every leaf has size F / 2^k with
\* k <= D-1, the leaf squares lie in the root square [-F/2, F/2]^2, no two of
\* them share an interior point, and their areas sum to F^2.
C3_LeavesTileRoot ==
    mRoot # NoTree =>
        /\ \A p \in Leaves :
              /\ \E k \in 0..(mMaxLODLevels - 1) : mRoot[p].Size * Pow2(k) = mTerrainSize
              /\ InsideRootSquare(mRoot[p])
        /\ \A p, q \in Leaves : p # q => InteriorsDisjoint(mRoot[p], mRoot[q])
        /\ AreaSum(Leaves) = mTerrainSize * mTerrainSize

\* a tree with 16 leaves two levels below the root
C3_Witness ==
    /\ mRoot # NoTree
    /\ Cardinality(Leaves) = 16
    /\ \A p \in Leaves : Len(p) = 2 /\ 4 * mRoot[p].Size = mTerrainSize

\* C4: after an Update, of two nodes at the same depth whose LOD that Update
\* computed, the one whose centre is farther from the camera has the greater
\* or equal LODLevel.
C4_FartherNodeCoarserLOD ==
    HasUpdate =>
        \A p, q \in DOMAIN mRoot :
            (/\ Len(p) = Len(q)
             /\ Evaluated(p) /\ Evaluated(q)
             /\ DistSq4(mRoot[p], CurCamera) < DistSq4(mRoot[q], CurCamera))
            => mRoot[p].LODLevel <= mRoot[q].LODLevel

\* a node of the tree that is fully inside the frustum and not subdivided
InsideAndKept(p) ==
    /\ FullyInside(mRoot[p].Bounds, CurPlanes)
    /\ ~ShouldSubdivide(mRoot[p], CurCamera)

\* C5 as stated: after an Update, every node whose box is fully inside all 6
\* planes and whose own subdivision test does not force descent is in the
\* list returned by GetVisibleNodes.
C5_InsideNodeListed ==
    (outValid /\ HasUpdate) =>
        \A p \in DOMAIN mRoot : InsideAndKept(p) => Listed(p)

\* C5 amended: such a node is in the list when the Update descended into
\* every one of its ancestors.
C5_InsideReachedNodeListed ==
    (outValid /\ HasUpdate) =>
        \A p \in DOMAIN mRoot : (InsideAndKept(p) /\ Reached(p)) => Listed(p)

\* a listed leaf two levels down, fully inside, next to a sibling that is not
C5_Witness ==
    /\ outValid /\ HasUpdate
    /\ \E p \in DOMAIN mRoot :
          /\ Len(p) = 2 /\ InsideAndKept(p) /\ Reached(p) /\ Listed(p)
    /\ \E q \in DOMAIN mRoot :
          /\ Len(q) = 1 /\ Reached(q) /\ ~Intersects(mRoot[q].Bounds, CurPlanes)

\* the children of p that the tree holds
ChildrenOf(p) == { i \in 0..3 : Child(p, i) \in DOMAIN mRoot }

\* C11: in a tree built by Initialize(F, M, D) a node at depth d with size s is
\* a leaf exactly when s <= M or d = D-1; a leaf owns no child and every other
\* node owns its four children.
C11_LeafIffSmallOrDeepest ==
    mRoot # NoTree =>
        \A p \in DOMAIN mRoot :
            /\ mRoot[p].IsLeaf <=>
                   (mRoot[p].Size <= mMinNodeSize \/ Len(p) = mMaxLODLevels - 1)
            /\ IF mRoot[p].IsLeaf THEN ChildrenOf(p) = {} ELSE ChildrenOf(p) = 0..3

\* a tree of three levels at most whose depth-1 nodes are leaves by their size
\* alone, under a root that owns four children
C11_Witness ==
    /\ mRoot # NoTree
    /\ mMaxLODLevels = 3
    /\ ~mRoot[<<>>].IsLeaf /\ ChildrenOf(<<>>) = 0..3
    /\ \A i \in 0..3 : /\ mRoot[<<i>>].IsLeaf
                       /\ mRoot[<<i>>].Size <= mMinNodeSize
                       /\ ChildrenOf(<<i>>) = {}

\* C12: every Initialize(F, M, D) leaves the LOD distance table holding, for
\* each level i in 0..D-1, the threshold M * 2^(D-i-1) * 2, whatever
\* SetLODDistances and Initialize calls were made before on the QuadTree.
C12_InitializeDerivesTable ==
    [][\A f \in TerrainSizes, m \in MinNodeSizes, d \in LODLevelCounts :
          Initialize(f, m, d) =>
              /\ Len(mLODDistances') = d
              /\ \A i \in 0..(d - 1) : mLODDistances'[i + 1] = m * Pow2(d - i - 1) * 2]_vars

StrictlyIncreasing(table) ==
    \A i \in 1..(Len(table) - 1) : table[i] < table[i + 1]

\* the level CalculateLOD selects for a node at distance dist from the camera
SelectedAt(dist, table, maxLODLevels) ==
    FirstBelow(4 * dist * dist, table, 1, maxLODLevels - 1)

\* C13: the table Initialize derives is strictly increasing with the level
\* index (level 0 has the smallest threshold), and every level 0..D-1 is
\* selected for some camera distance.
C13_TableIncreasingAllLevelsSelected ==
    (/\ mRoot # NoTree
     /\ mLODDistances = DefaultLODDistances(mMinNodeSize, mMaxLODLevels))
    => /\ StrictlyIncreasing(mLODDistances)
       /\ \A l \in 0..(mMaxLODLevels - 1) :
             \E dist \in 0..(2 * mMinNodeSize * Pow2(mMaxLODLevels)) :
                 SelectedAt(dist, mLODDistances, mMaxLODLevels) = l

\* the indices of the thresholds strictly greater than the distance from the
\* camera of the most recent Update to the centre of p
ThresholdsAbove(p) ==
    { i \in 0..(Len(mLODDistances) - 1) :
          DistSq4(mRoot[p], CurCamera) < 4 * mLODDistances[i + 1] * mLODDistances[i + 1] }

SmallestThresholdAbove(p) ==
    IF ThresholdsAbove(p) = {} THEN mMaxLODLevels - 1
    ELSE CHOOSE i \in ThresholdsAbove(p) : \A j \in ThresholdsAbove(p) : i <= j

\* C14: after an Update, the LODLevel of every node that passed its frustum
\* test is the smallest index whose threshold is strictly greater than the
\* distance from the camera to the node centre, or maxLODLevels-1 when there
\* is none, and it lies in 0..maxLODLevels-1.
C14_LODIsFirstThresholdInRange ==
    HasUpdate =>
        \A p \in DOMAIN mRoot :
            Evaluated(p) =>
                /\ mRoot[p].LODLevel = SmallestThresholdAbove(p)
                /\ mRoot[p].LODLevel \in 0..(mMaxLODLevels - 1)

\* the camera of the most recent Update is horizontally nearer to the centre
\* of p than 1.5 x its size
XZNear(p) ==
    LET dx == CurCamera.x - mRoot[p].X
        dz == CurCamera.z - mRoot[p].Z
    IN  4 * (dx * dx + dz * dz) < 9 * mRoot[p].Size * mRoot[p].Size

Expands(p) == ~mRoot[p].IsLeaf /\ XZNear(p)

\* p passed the frustum test of the most recent Update
Tested(p) ==
    /\ \A q \in Ancestors(p) : Intersects(mRoot[q].Bounds, CurPlanes) /\ Expands(q)
    /\ Intersects(mRoot[p].Bounds, CurPlanes)

Descendants(p) ==
    { q \in DOMAIN mRoot : Len(q) > Len(p) /\ SubSeq(q, 1, Len(p)) = p }

\* C15: in an Update, a node that passed the frustum test is descended into
\* (it is not a draw target and its children are evaluated) exactly when it is
\* a non-leaf and the XZ distance from the camera to its centre is below
\* 1.5 x its size; otherwise it is a draw target and, in the first Update of
\* the tree, nothing below it is touched.
C15_DescendsIffNearInXZ ==
    HasUpdate =>
        \A p \in DOMAIN mRoot :
            Tested(p) =>
                /\ mRoot[p].IsVisible <=> ~Expands(p)
                /\ Expands(p) =>
                       \A i \in 0..3 :
                           ~Intersects(mRoot[Child(p, i)].Bounds, CurPlanes)
                               => ~mRoot[Child(p, i)].IsVisible
                /\ (~Expands(p) /\ updates = 1) =>
                       \A q \in Descendants(p) :
                           ~mRoot[q].IsVisible /\ mRoot[q].LODLevel = Len(q)

\* the root is descended into although its centre is 3D-farther than 1.5 x its
\* size and its LOD is the coarsest, while a non-leaf child is a draw target
C15_Witness ==
    /\ HasUpdate
    /\ Tested(<<>>) /\ Expands(<<>>) /\ ~mRoot[<<>>].IsVisible
    /\ DistSq4(mRoot[<<>>], CurCamera) >= 9 * mRoot[<<>>].Size * mRoot[<<>>].Size
    /\ mRoot[<<>>].LODLevel = mMaxLODLevels - 1
    /\ \E i \in 0..3 : /\ Tested(<<i>>) /\ ~mRoot[<<i>>].IsLeaf
                       /\ ~Expands(<<i>>) /\ mRoot[<<i>>].IsVisible

\* a comes before b in the depth-first order with children visited 0, 1, 2, 3
\* (for nodes neither of which is above the other)
DepthFirstBefore(a, b) ==
    \E k \in 1..Min2(Len(a), Len(b)) :
        /\ a[k] < b[k]
        /\ \A j \in 1..(k - 1) : a[j] = b[j]

\* the nodes the most recent Update marked as draw targets
Marked == { p \in DOMAIN mRoot : Tested(p) /\ mRoot[p].IsVisible }

\* C16: after an Update, the n nodes it marked as draw targets have the slot
\* indices 0..n-1, each the number of marked nodes before it in depth-first
\* order, the slot counter is n and so is GetVisibleNodeCount(); an Update
\* without a tree leaves both at 0.
C16_SlotsSequentialFromZero ==
    lastUpdate # <<>> =>
        IF mRoot = NoTree
        THEN mVisibleNodeCount = 0 /\ mNextObjectCBIndex = 0
        ELSE LET marked == Marked
             IN  /\ mVisibleNodeCount = Cardinality(marked)
                 /\ mNextObjectCBIndex = Cardinality(marked)
                 /\ \A p \in marked :
                       mRoot[p].ObjectCBIndex
                           = Cardinality({ q \in marked : DepthFirstBefore(q, p) })

\* the second Update of a tree marks 7 nodes of two depths: child 0, the four
\* children of child 1, child 2 and child 3, which gets slot 6
C16_Witness ==
    /\ HasUpdate /\ updates = 2
    /\ mVisibleNodeCount = 7
    /\ { <<0>>, <<1, 0>>, <<1, 3>>, <<3>> } \subseteq Marked
    /\ mRoot[<<1, 0>>].ObjectCBIndex = 1
    /\ mRoot[<<3>>].ObjectCBIndex = 6

\* the root with the height range (minY, maxY), every other field as it is
RootWithHeightRange(minY, maxY) ==
    [mRoot[<<>>] EXCEPT
        !.MinY = minY,
        !.MaxY = maxY,
        !.Bounds = [Center |-> Vec3(mRoot[<<>>].Bounds.Center.x, (minY + maxY) \div 2,
                                    mRoot[<<>>].Bounds.Center.z),
                    Extents |-> Vec3(mRoot[<<>>].Bounds.Extents.x, (maxY - minY) \div 2 + 10,
                                     mRoot[<<>>].Bounds.Extents.z)]]

C18_EveryBoxHasGlobalHeightRange ==
    HasUpdate =>
        \A p \in DOMAIN mRoot :
            /\ 2 * mRoot[p].Bounds.Extents.x = mRoot[p].Size
            /\ 2 * mRoot[p].Bounds.Extents.z = mRoot[p].Size
            /\ mRoot[p].Bounds.Extents.y
                   = (mRoot[<<>>].MaxY - mRoot[<<>>].MinY) \div 2 + 10

\* node q lies below node p in the tree
Below(q, p) == Len(q) > Len(p) /\ SubSeq(q, 1, Len(p)) = p

\* C23: the list returned by GetVisibleNodes never holds a node together with
\* one of its descendants (nor a node twice), so the XZ squares of any two
\* listed nodes share no interior point.
C23_ListedNodesDisjoint ==
    (outValid /\ mRoot # NoTree) =>
        \A i, j \in 1..Len(outNodes) :
            i # j =>
                /\ outNodes[i] # outNodes[j]
                /\ ~Below(outNodes[j], outNodes[i])
                /\ InteriorsDisjoint(mRoot[outNodes[i]], mRoot[outNodes[j]])

\* a listed node above nodes that an earlier Update flagged, and at least two
\* nodes listed
C23_Witness ==
    /\ outValid /\ mRoot # NoTree
    /\ Len(outNodes) >= 2
    /\ \E i \in 1..Len(outNodes) :
          \E q \in Descendants(outNodes[i]) : mRoot[q].IsVisible

\* C24: the list returned by GetVisibleNodes is the nodes the most recent
\* Update gave slots to: its length is GetVisibleNodeCount() and its i-th
\* element (from 0) has ObjectCBIndex = i.
C24_ListIsSlotOrder ==
    (outValid /\ HasUpdate) =>
        /\ Len(outNodes) = mVisibleNodeCount
        /\ \A i \in 1..Len(outNodes) : mRoot[outNodes[i]].ObjectCBIndex = i - 1

\* the same for a tree that has been updated once
C24_HoldsAfterOneUpdate ==
    updates <= 1 => C24_ListIsSlotOrder

-----------------------------------------------------------------------------
(* Properties of the heightfield store                                     *)

\* C6: loading a raw heightmap whose data is shorter than
\* width * height * bytesPerSample fails (LoadHeightmap returns false) and stores
\* no more bytes than the data holds.
C6_ShortRasterFails ==
    (/\ lastCall.op = "LoadHeightmap"
     /\ lastCall.exists
     /\ lastCall.dataLen < lastCall.needed)
    => (/\ lastCall.ok = FALSE
        /\ lastCall.got <= lastCall.dataLen)

GridNonEmpty == Len(terrain.mHeightmap) > 0

\* C7: with a non-empty grid, every element GetHeight and GetNormal read has its
\* column in 0..width-1 and its row in 0..height-1, and lies in mHeightmap,
\* whatever the world coordinate.
C7_ReadsInsideGrid ==
    (lastCall.op \in {"GetHeight", "GetNormal"} /\ GridNonEmpty) =>
        \A r \in lastCall.result.reads :
            /\ r.col \in 0..(terrain.mHeightmapWidth - 1)
            /\ r.row \in 0..(terrain.mHeightmapHeight - 1)
            /\ r.index \in 0..(Len(terrain.mHeightmap) - 1)

\* GetNormal far beyond the right edge of a 2 x 2 grid, z too large for int:
\* the reads are clamped to the last column
C7_Witness ==
    /\ lastCall.op = "GetNormal"
    /\ terrain.mHeightmapWidth = 2 /\ terrain.mHeightmapHeight = 2
    /\ lastCall.x = Coord(10 * terrain.mTerrainSize, 1)
    /\ lastCall.z.huge
    /\ lastCall.result.reads # {}
    /\ \A r \in lastCall.result.reads : r.col = 1

\* the sample stored for column c, row r, as a world height
StoredHeight(c, r) ==
    RAdd(RInt(terrain.mMinHeight),
         RMul(terrain.mHeightmap[r * terrain.mHeightmapWidth + c + 1],
              RInt(terrain.mMaxHeight - terrain.mMinHeight)))

\* the query of lastCall is made at the world coordinate of column c, row r
QueriedAt(c, r) ==
    /\ ~lastCall.x.huge /\ ~lastCall.z.huge
    /\ ToTexel(lastCall.x, terrain.mTerrainSize, terrain.mHeightmapWidth).q = RInt(c)
    /\ ToTexel(lastCall.z, terrain.mTerrainSize, terrain.mHeightmapHeight).q = RInt(r)

\* C8: GetHeight at the world coordinate that maps to u = c, v = r of a grid
\* cell returns minHeight + grid[r][c] * (maxHeight - minHeight).
C8_AlignedSampleExact ==
    (lastCall.op = "GetHeight" /\ GridNonEmpty) =>
        \A c \in 0..(terrain.mHeightmapWidth - 1), r \in 0..(terrain.mHeightmapHeight - 1) :
            QueriedAt(c, r) =>
                /\ lastCall.result.defined
                /\ lastCall.result.value = StoredHeight(c, r)

\* GetHeight at cell (1, 1) of a 2 x 2 grid whose four samples differ
C8_Witness ==
    /\ lastCall.op = "GetHeight"
    /\ terrain.mHeightmapWidth = 2 /\ terrain.mHeightmapHeight = 2
    /\ QueriedAt(1, 1)
    /\ Cardinality({ terrain.mHeightmap[i] : i \in 1..4 }) = 4
    /\ lastCall.result.value = StoredHeight(1, 1)

\* least and greatest element of a non-empty sequence
SeqMin(q) == CHOOSE m \in { q[i] : i \in 1..Len(q) } :
                 \A i \in 1..Len(q) : ~RLess(q[i], m)
SeqMax(q) == CHOOSE m \in { q[i] : i \in 1..Len(q) } :
                 \A i \in 1..Len(q) : ~RLess(m, q[i])

\* C9: after GenerateProceduralHeightmap with width, height, octaves >= 1 the
\* least sample is 0 and the greatest is 1, unless the range of the samples
\* before the rescale is at most 0.001: then every sample keeps its value.
C9_RescaledToUnitRange ==
    lastCall.op = "GenerateProceduralHeightmap" =>
        LET pre == lastCall.unscaled
        IN  IF RLess(<<1, 1000>>, RSub(SeqMax(pre), SeqMin(pre)))
            THEN /\ SeqMin(terrain.mHeightmap) = RInt(0)
                 /\ SeqMax(terrain.mHeightmap) = RInt(1)
            ELSE terrain.mHeightmap = pre

\* a generated 2 x 2 grid that the rescale changed
C9_Witness ==
    /\ lastCall.op = "GenerateProceduralHeightmap"
    /\ Len(terrain.mHeightmap) = 4
    /\ terrain.mHeightmap # lastCall.unscaled
    /\ SeqMin(terrain.mHeightmap) = RInt(0)
    /\ SeqMax(terrain.mHeightmap) = RInt(1)

GradientsDiffer(g, h) ==
    \E pt \in GradPoints : Grad(g, pt[1], pt[2]) # Grad(h, pt[1], pt[2])

\* C20: Grad(h, x, z) is sx * x + sz * z for a diagonal direction (sx, sz) in
\* (+-1, +-1) that hash & 3 selects, and the four values of hash & 3 select four
\* pairwise different functions.
C20_FourDistinctGradients ==
    lastCall.op = "Grad" =>
        /\ \E sx \in {-1, 1}, sz \in {-1, 1} :
               lastCall.result = RAdd(RMul(RInt(sx), lastCall.x), RMul(RInt(sz), lastCall.z))
        /\ \A g \in 0..3 :
               g # lastCall.hash % 4 => GradientsDiffer(g, lastCall.hash)

\* the elements of mPermutation that PerlinNoise reads with the indices ix
IndicesRead(ix) == { ix.X, ix.X + 1, ix.A, ix.A + 1, ix.B, ix.B + 1 }

\* C22: mPermutation has 512 entries, entries 0..255 are a permutation of
\* 0..255 and entry i + 256 equals entry i; every index PerlinNoise uses
\* (X, X+1, A, A+1, B, B+1) lies in 0..511, at negative coordinates and at the
\* ends of the range of int too.
C22_PermutationIndicesInRange ==
    LET perm == terrain.mPermutation
    IN  /\ Len(perm) = 2 * PermSize
        /\ { perm[i] : i \in 1..PermSize } = 0..(PermSize - 1)
        /\ \A i \in 1..PermSize : perm[i + PermSize] = perm[i]
        /\ \A c \in {IntMin, -1, IntMax} :
              IndicesRead(PerlinIndices(perm, RInt(c), RInt(c))) \subseteq 0..(2 * PermSize - 1)
        /\ lastCall.op = "PerlinNoise" =>
              IndicesRead(lastCall.indices) \subseteq 0..(2 * PermSize - 1)

\* PerlinNoise at a negative x: the cell is X = 255 and X + 1 = 256 reads the
\* second half of the table
C22_Witness ==
    /\ lastCall.op = "PerlinNoise"
    /\ RLess(lastCall.x, RInt(0))
    /\ lastCall.indices.X = PermSize - 1
    /\ IndicesRead(lastCall.indices) \subseteq 0..(2 * PermSize - 1)
    /\ \E k \in IndicesRead(lastCall.indices) : k >= PermSize

-----------------------------------------------------------------------------
(* Properties of the application                                           *)

Initialized == mRoot # NoTree

\* C21: after TerrainApp::Initialize, on the DDS path and on the procedural
\* path, the height texture has the dimensions of the Terrain's grid and its
\* normalized height at each texel equals the grid sample of that texel.
C21_TextureEqualsGrid ==
    Initialized =>
        /\ mHeightmapTexture.width = terrain.mHeightmapWidth
        /\ mHeightmapTexture.height = terrain.mHeightmapHeight
        /\ mHeightmapTexture.texels = terrain.mHeightmap

\* the same on the procedural path alone
C21_HoldsOnFallback ==
    (Initialized /\ ~mHeightmapTexture.fromFile) => C21_TextureEqualsGrid

\* C25: with the application's tree (size 512, minimum node size 64, 5 LOD
\* levels) every element UpdatePerObjectCB writes for a frame's list lies in
\* the object constant buffer of maxObjects elements.
C25_ListFitsObjectCB ==
    (Initialized /\ outValid) =>
        UpdatePerObjectCB(outNodes) \subseteq 0..(maxObjects - 1)

\* a frame after an earlier one, whose list holds more than 16 nodes, leaves
\* among them
C25_Witness ==
    /\ Initialized /\ outValid
    /\ updates >= 2
    /\ Len(outNodes) > 16
    /\ \E i \in 1..Len(outNodes) : mRoot[outNodes[i]].IsLeaf

\* C26: a HandleKeyboard call flips mUseWireframe exactly when key '1' is down
\* and it was up at the call before (or there was no call before); while the
\* key stays down the later calls leave mUseWireframe alone.
C26_TogglesOncePerPress ==
    [][\A k \in BOOLEAN, c \in AppCameras, f \in AppFrusta :
          TerrainAppUpdate(k, c, f) =>
              ((mUseWireframe' # mUseWireframe) <=> (k /\ heldFrames = 0))]_vars

\* the key held down for three frames from the first: wireframe flipped once
C26_Witness ==
    /\ updates = 3
    /\ heldFrames = 3
    /\ mUseWireframe
    /\ keyLatch

-----------------------------------------------------------------------------
(* Properties of the mesh templates                                        *)

RECURSIVE VerticesBefore(_)
\* the number of vertices of the LODs finer than lod
VerticesBefore(lod) ==
    IF lod = 0 THEN 0
    ELSE VerticesBefore(lod - 1) + (kGrid[lod - 1] + 1) * (kGrid[lod - 1] + 1)

RECURSIVE IndicesBefore(_)
IndicesBefore(lod) ==
    IF lod = 0 THEN 0
    ELSE IndicesBefore(lod - 1) + 6 * kGrid[lod - 1] * kGrid[lod - 1]

\* the positions in the vertex buffer of the vertices of LOD lod
VertexBlock(lod) == VerticesBefore(lod)..(VerticesBefore(lod + 1) - 1)

\* the vertices a draw of submesh sm addresses
Addressed(sm) ==
    { mGeometry.inds[k + 1] + sm.BaseVertexLocation :
          k \in sm.StartIndexLocation..(sm.StartIndexLocation + sm.IndexCount - 1) }

\* C19: BuildGeometry emits for each LOD of resolution g its (g+1)^2 vertices
\* (texture coordinates the multiples of 1/g) and 6*g^2 indices, and the
\* submesh of the LOD has IndexCount 6*g^2 and addresses, through
\* StartIndexLocation and BaseVertexLocation, only vertices of the LOD's own
\* block; so does every index a draw call of that LOD reads.
C19_SubmeshAddressesOwnBlock ==
    mGeometry # NoGeometry =>
        /\ Len(mGeometry.verts) = VerticesBefore(NumLODs)
        /\ Len(mGeometry.inds) = IndicesBefore(NumLODs)
        /\ draw = NoDraw =>
              \A lod \in 0..(NumLODs - 1) :
                  LET sm == mGeometry.DrawArgs[lod + 1]
                      g == kGrid[lod]
                  IN  /\ sm.IndexCount = 6 * g * g
                      /\ sm.StartIndexLocation = IndicesBefore(lod)
                      /\ \A v \in VertexBlock(lod) :
                            mGeometry.verts[v + 1].TexC
                                = <<Rat((v - VerticesBefore(lod)) % (g + 1), g),
                                    Rat((v - VerticesBefore(lod)) \div (g + 1), g)>>
                      /\ Addressed(sm) \subseteq VertexBlock(lod)
        /\ (draw # NoDraw /\ draw.fetched > 0) => draw.vertex \in VertexBlock(draw.lod)

\* the draw of the coarsest LOD has read its last index: the last vertex of the
\* vertex buffer
C19_Witness ==
    /\ mGeometry # NoGeometry
    /\ draw # NoDraw
    /\ draw.lod = NumLODs - 1
    /\ draw.fetched = 6 * kGrid[draw.lod] * kGrid[draw.lod]
    /\ draw.vertex = Len(mGeometry.verts) - 1
    /\ draw.vertex \in VertexBlock(draw.lod)

====
